---- MODULE Spec2Model ----
(***************************************************************************)
(* pypopper, a file-based POP3 server (src/pypopper.py).                   *)
(*                                                                         *)
(* A Python str is modelled as a sequence of one-character strings, so     *)
(* that slicing, searching, splitting, formatting and parsing are computed *)
(* as the code computes them.  None is the empty option <<>> and a present *)
(* value v is <<v>>.                                                       *)
(***************************************************************************)
EXTENDS Integers, Sequences, FiniteSets, TLC

CR == "\r"
LF == "\n"
SP == " "
TAB == "\t"

None == <<>>
Some(v) == <<v>>

(***************************************************************************)
(* String literals of the program.                                         *)
(***************************************************************************)
S_OK == <<"+", "O", "K">>
S_ERR == <<"-", "E", "R", "R">>
S_banner == <<"p", "y", "p", "o", "p", "p", "e", "r", SP, "f", "i", "l", "e", "-", "b",
    "a", "s", "e", "d", SP, "p", "o", "p", "3", SP, "s", "e", "r", "v", "e", "r", SP,
    "r", "e", "a", "d", "y">>
S_user_accepted == <<"u", "s", "e", "r", SP, "a", "c", "c", "e", "p", "t", "e", "d">>
S_pass_accepted == <<"p", "a", "s", "s", SP, "a", "c", "c", "e", "p", "t", "e", "d">>
S_capa == <<"C", "a", "p", "a", "b", "i", "l", "i", "t", "y", SP, "l", "i", "s", "t",
    SP, "f", "o", "l", "l", "o", "w", "s">>
S_TOP == <<"T", "O", "P">>
S_USER == <<"U", "S", "E", "R">>
S_UIDL == <<"U", "I", "D", "L">>
S_dot == <<".">>
S_messages == <<"m", "e", "s", "s", "a", "g", "e", "s", SP, "(">>
S_octets_paren == <<"o", "c", "t", "e", "t", "s", ")">>
S_uidl_follows == <<"u", "n", "i", "q", "u", "e", "-", "i", "d", SP, "l", "i", "s",
    "t", "i", "n", "g", SP, "f", "o", "l", "l", "o", "w", "s">>
S_top_follows == <<"t", "o", "p", SP, "o", "f", SP, "m", "e", "s", "s", "a", "g", "e",
    SP, "f", "o", "l", "l", "o", "w", "s">>
S_octets == <<"o", "c", "t", "e", "t", "s">>
S_message == <<"m", "e", "s", "s", "a", "g", "e">>
S_deleted == <<"d", "e", "l", "e", "t", "e", "d", SP, "(", "f", "a", "k", "e", ")">>
S_signoff == <<"p", "y", "p", "o", "p", "p", "e", "r", SP, "P", "O", "P", "3", SP, "s",
    "e", "r", "v", "e", "r", SP, "s", "i", "g", "n", "i", "n", "g", SP, "o", "f",
    "f">>
S_bad_args == <<"b", "a", "d", SP, "a", "r", "g", "s">>
S_missing_args == <<"m", "i", "s", "s", "i", "n", "g", SP, "a", "r", "g", "s">>
S_bad_number == <<"b", "a", "d", SP, "n", "u", "m", "b", "e", "r">>
S_bad_message_number == <<"b", "a", "d", SP, "m", "e", "s", "s", "a", "g", "e", SP,
    "n", "u", "m", "b", "e", "r">>
S_unknown_command == <<"u", "n", "k", "n", "o", "w", "n", SP, "c", "o", "m", "m", "a",
    "n", "d">>
S_substring == <<"s", "u", "b", "s", "t", "r", "i", "n", "g", SP, "n", "o", "t", SP,
    "f", "o", "u", "n", "d">>
S_unpack_many == <<"t", "o", "o", SP, "m", "a", "n", "y", SP, "v", "a", "l", "u", "e",
    "s", SP, "t", "o", SP, "u", "n", "p", "a", "c", "k", SP, "(", "e", "x", "p", "e",
    "c", "t", "e", "d", SP, "2", ")">>

\* ChatterboxConnection.end, the line delimiter
end == <<CR, LF>>

(***************************************************************************)
(* Python str operations.                                                  *)
(***************************************************************************)
Whitespace == {SP, TAB, CR, LF}
Digits == <<"0", "1", "2", "3", "4", "5", "6", "7", "8", "9">>
UpperCase == <<"A", "B", "C", "D", "E", "F", "G", "H", "I", "J", "K", "L", "M",
               "N", "O", "P", "Q", "R", "S", "T", "U", "V", "W", "X", "Y", "Z">>
LowerCase == <<"a", "b", "c", "d", "e", "f", "g", "h", "i", "j", "k", "l", "m",
               "n", "o", "p", "q", "r", "s", "t", "u", "v", "w", "x", "y", "z">>

Range(f) == {f[i] : i \in DOMAIN f}

\* s[i:] and s[:i] for a 0-based i with 0 <= i
From(s, i) == SubSeq(s, i + 1, Len(s))
UpTo(s, i) == SubSeq(s, 1, i)

\* "".join(ss)
RECURSIVE Cat(_)
Cat(ss) == IF ss = <<>> THEN <<>> ELSE Head(ss) \o Cat(Tail(ss))

\* sep.join(ss)
RECURSIVE Join(_, _)
Join(sep, ss) ==
    IF ss = <<>> THEN <<>>
    ELSE IF Len(ss) = 1 THEN ss[1]
    ELSE ss[1] \o sep \o Join(sep, Tail(ss))

\* s.find(pat): the 0-based place of the first occurrence of pat in s, or -1
Find(s, pat) ==
    LET hits == {i \in 0..(Len(s) - Len(pat)) : SubSeq(s, i + 1, i + Len(pat)) = pat}
    IN  IF hits = {} THEN -1 ELSE CHOOSE i \in hits : \A j \in hits : i <= j

\* pat in s
In(pat, s) == Find(s, pat) >= 0

\* s.split(sep) for a non-empty sep
RECURSIVE Split(_, _)
Split(s, sep) ==
    LET i == Find(s, sep)
    IN  IF i < 0 THEN <<s>>
        ELSE <<UpTo(s, i)>> \o Split(From(s, i + Len(sep)), sep)

\* s.lstrip(), s.rstrip(), s.strip()
RECURSIVE LStrip(_)
LStrip(s) == IF s # <<>> /\ Head(s) \in Whitespace THEN LStrip(Tail(s)) ELSE s
RECURSIVE RStrip(_)
RStrip(s) ==
    IF s # <<>> /\ s[Len(s)] \in Whitespace THEN RStrip(UpTo(s, Len(s) - 1)) ELSE s
Strip(s) == RStrip(LStrip(s))

\* the length of the first whitespace-free run of s
RECURSIVE WordLen(_)
WordLen(s) == IF s = <<>> \/ Head(s) \in Whitespace THEN 0 ELSE 1 + WordLen(Tail(s))

\* s.split(): the whitespace-separated words of s
RECURSIVE SplitWords(_)
SplitWords(s) ==
    LET t == LStrip(s)
        n == WordLen(t)
    IN  IF t = <<>> THEN <<>> ELSE <<UpTo(t, n)>> \o SplitWords(From(t, n))

\* s.split(maxsplit=1): the first word, and the rest after the whitespace that
\* follows it when that rest is not empty (its trailing whitespace is kept)
SplitMax1(s) ==
    LET t == LStrip(s)
        n == WordLen(t)
        rest == LStrip(From(t, n))
    IN  IF t = <<>> THEN <<>>
        ELSE IF rest = <<>> THEN <<UpTo(t, n)>>
        ELSE <<UpTo(t, n), rest>>

\* s.lower()
LowerChar(c) ==
    IF \E i \in DOMAIN UpperCase : UpperCase[i] = c
    THEN LowerCase[CHOOSE i \in DOMAIN UpperCase : UpperCase[i] = c]
    ELSE c
Lower(s) == [i \in DOMAIN s |-> LowerChar(s[i])]

\* str(n) and "%i" % n: the decimal digits of an integer
RECURSIVE StrNat(_)
StrNat(n) == IF n < 10 THEN <<Digits[n + 1]>> ELSE StrNat(n \div 10) \o <<Digits[(n % 10) + 1]>>
StrInt(n) == IF n < 0 THEN <<"-">> \o StrNat(-n) ELSE StrNat(n)

\* int(s): surrounding whitespace is dropped, one sign is allowed, and the
\* rest must be decimal digits; anything else raises ValueError
IsDigit(c) == \E i \in DOMAIN Digits : Digits[i] = c
DigitVal(c) == (CHOOSE i \in DOMAIN Digits : Digits[i] = c) - 1
RECURSIVE NatVal(_)
NatVal(ds) == IF ds = <<>> THEN 0 ELSE 10 * NatVal(UpTo(ds, Len(ds) - 1)) + DigitVal(ds[Len(ds)])
ParseInt(s) ==
    LET t == Strip(s)
        signed == t # <<>> /\ Head(t) \in {"+", "-"}
        ds == IF signed THEN Tail(t) ELSE t
    IN  IF ds = <<>> \/ \E i \in DOMAIN ds : ~IsDigit(ds[i])
        THEN [ok |-> FALSE, val |-> 0]
        ELSE [ok |-> TRUE,
              val |-> IF signed /\ Head(t) = "-" THEN -NatVal(ds) ELSE NatVal(ds)]

\* repr(s) of a str
ReprChar(c) ==
    CASE c = CR -> <<"\\", "r">>
      [] c = LF -> <<"\\", "n">>
      [] c = TAB -> <<"\\", "t">>
      [] c = "\\" -> <<"\\", "\\">>
      [] OTHER -> <<c>>
ReprStr(s) ==
    LET dq == "'" \in Range(s) /\ "\"" \notin Range(s)
        q == IF dq THEN "\"" ELSE "'"
        esc(c) == IF c = "'" /\ ~dq THEN <<"\\", "'">> ELSE ReprChar(c)
    IN  <<q>> \o Cat([i \in DOMAIN s |-> esc(s[i])]) \o <<q>>

(***************************************************************************)
(* The files the message sources name.  A file is the bytes on disk;       *)
(* os.stat reports their number, and open(filename, "r").read() decodes    *)
(* them in text mode, where every "\r\n" and every lone "\r" is read as    *)
(* "\n".                                                                   *)
(***************************************************************************)
F_crlf == <<"d", "/", "a">>
F_gone == <<"g">>
F_lf == <<"b">>
F_nohead == <<"d", "/", "c">>

AllFiles == <<F_crlf, F_gone, F_lf, F_nohead>>

FileBytes(filename) ==
    CASE filename = F_crlf -> <<"H", CR, LF, CR, LF, "p", CR, LF, "q">>
      [] filename = F_lf -> <<"K", LF, "L", LF, LF, "x", LF, LF, "y", LF>>
      [] filename = F_nohead -> <<"z", "z">>
      [] OTHER -> <<>>

\* os.path.exists(filename)
exists(filename) == filename \in {F_crlf, F_lf, F_nohead}

\* os.stat(filename).st_size
st_size(filename) == Len(FileBytes(filename))

\* open(filename, "r").read()
RECURSIVE TextOf(_)
TextOf(bytes) ==
    IF bytes = <<>> THEN <<>>
    ELSE IF Len(bytes) >= 2 /\ bytes[1] = CR /\ bytes[2] = LF
         THEN <<LF>> \o TextOf(From(bytes, 2))
    ELSE IF bytes[1] = CR THEN <<LF>> \o TextOf(Tail(bytes))
    ELSE <<bytes[1]>> \o TextOf(Tail(bytes))
read(filename) == TextOf(FileBytes(filename))

\* os.path.basename(path)
RECURSIVE basename(_)
basename(path) ==
    LET i == Find(path, <<"/">>)
    IN  IF i < 0 THEN path ELSE basename(From(path, i + 1))

(***************************************************************************)
(* Python values that are formatted into a response, and exceptions.       *)
(***************************************************************************)
PyStr(s) == [tag |-> "str", s |-> s, i |-> 0]
PyInt(n) == [tag |-> "int", s |-> <<>>, i |-> n]
str(v) == IF v.tag = "int" THEN StrInt(v.i) ELSE v.s
repr(v) == IF v.tag = "int" THEN StrInt(v.i) ELSE ReprStr(v.s)

\* str(err) of an exception raised with args: the argument itself when there
\* is one, the repr of the tuple of arguments when there are several
StrError(args) ==
    IF args = <<>> THEN <<>>
    ELSE IF Len(args) = 1 THEN str(args[1])
    ELSE <<"(">> \o Join(<<",", SP>>, [i \in DOMAIN args |-> repr(args[i])]) \o <<")">>

(***************************************************************************)
(* class Message.  A method that may load the file returns the message     *)
(* with its cache filled in (m) beside its value (v); exc names the        *)
(* exception it raises, "" when it returns.                                *)
(***************************************************************************)
Message(messagefile) ==
    [filename |-> messagefile, _data |-> None, _lines |-> None,
     uid |-> basename(messagefile)]

data(m) ==
    LET Load(text) == [m |-> [m EXCEPT !._data = Some(text)], v |-> text]
    IN  IF m._data = None THEN Load(read(m.filename)) ELSE [m |-> m, v |-> m._data[1]]

size(m) == IF m._data # None THEN Len(m._data[1]) ELSE st_size(m.filename)

\* data.index("\n\n") raises ValueError("substring not found") when there is none
_head(m) ==
    LET Cut(d, i) ==
            IF i < 0
            THEN [exc |-> "ValueError", args |-> <<PyStr(S_substring)>>, m |-> d.m, v |-> <<>>]
            ELSE [exc |-> "", args |-> <<>>, m |-> d.m, v |-> UpTo(d.v, i)]
        At(d) == Cut(d, Find(d.v, <<LF, LF>>))
    IN  At(data(m))

_body(m) ==
    LET Cut(d, i) ==
            IF i < 0
            THEN [exc |-> "ValueError", args |-> <<PyStr(S_substring)>>, m |-> d.m, v |-> <<>>]
            ELSE [exc |-> "", args |-> <<>>, m |-> d.m, v |-> From(d.v, i + 2)]
        At(d) == Cut(d, Find(d.v, <<LF, LF>>))
    IN  At(data(m))

\* ls[:lines - 1]: a slice one line short
Slice_short(ls, lines) ==
    IF lines >= 1 THEN UpTo(ls, IF lines - 1 < Len(ls) THEN lines - 1 ELSE Len(ls))
    ELSE UpTo(ls, IF Len(ls) + lines - 1 > 0 THEN Len(ls) + lines - 1 ELSE 0)

\* ls[:lines] for any integer lines
Slice(ls, lines) ==
    IF lines >= 0 THEN UpTo(ls, IF lines < Len(ls) THEN lines ELSE Len(ls))
    ELSE UpTo(ls, IF Len(ls) + lines > 0 THEN Len(ls) + lines ELSE 0)

top(m, lines) ==
    LET Lines(h) ==
            IF h.m._lines = None THEN Split(_body(h.m).v, <<LF>>) ELSE h.m._lines[1]
        Result(h, ls) ==
            [exc |-> "", args |-> <<>>, m |-> [h.m EXCEPT !._lines = Some(ls)],
             v |-> h.v \o end \o end \o Join(end, Slice(ls, lines))]
        Go(h) ==
            IF h.exc # "" THEN h
            ELSE IF lines # 0 THEN Result(h, Lines(h))
            ELSE [h EXCEPT !.v = @ \o end \o end]
    IN  Go(_head(m))

(***************************************************************************)
(* class MessageList: ml is [_source, _array].                             *)
(***************************************************************************)
MessageList(sources) == [_source |-> sources, _array |-> None]

RECURSIVE Existing(_)
Existing(sources) ==
    IF sources = <<>> THEN <<>>
    ELSE IF exists(Head(sources)) THEN <<Message(Head(sources))>> \o Existing(Tail(sources))
    ELSE Existing(Tail(sources))

refresh(ml) == [ml EXCEPT !._array = Some(Existing(ml._source))]

\* "if self._array is None: self.refresh()", the first thing __getitem__ and
\* __len__ do; the operators below are given the list after it
Loaded(ml) == IF ml._array = None THEN refresh(ml) ELSE ml

len(ml) == Len(ml._array[1])

\* self._array[i]: a Python list index, IndexError outside -len..len-1 and
\* counted from the end when negative
InRange(ml, i) == -len(ml) <= i /\ i < len(ml)
Position(ml, i) == IF i < 0 THEN len(ml) + i + 1 ELSE i + 1
getitem(ml, i) == ml._array[1][Position(ml, i)]

\* the list with m, a message with its caches filled, at Python index i
setitem(ml, i, m) == [ml EXCEPT !._array = Some([ml._array[1] EXCEPT ![Position(ml, i)] = m])]

(***************************************************************************)
(* class POPConnection.  A handler is given the parameter (None or a str)  *)
(* and the message list; its outcome is the exception it raises (exc, "",  *)
(* when it returns), what it sent on the socket, the message list with the *)
(* caches it filled, whether it closed the socket and the connected flag   *)
(* it leaves.                                                              *)
(***************************************************************************)
\* the names after "handle_" of the methods get_handler can find
V_user == <<"u", "s", "e", "r">>
V_pass == <<"p", "a", "s", "s">>
V_capa == <<"c", "a", "p", "a">>
V_stat == <<"s", "t", "a", "t">>
V_list == <<"l", "i", "s", "t">>
V_uidl == <<"u", "i", "d", "l">>
V_top == <<"t", "o", "p">>
V_retr == <<"r", "e", "t", "r">>
V_dele == <<"d", "e", "l", "e">>
V_noop == <<"n", "o", "o", "p">>
V_quit == <<"q", "u", "i", "t">>
V_unknown == <<"u", "n", "k", "n", "o", "w", "n">>
S_expected2 == <<"(", "e", "x", "p", "e", "c", "t", "e", "d", SP, "2", ",", SP, "g",
    "o", "t", SP>>
S_not_enough == <<"n", "o", "t", SP, "e", "n", "o", "u", "g", "h", SP, "v", "a", "l",
    "u", "e", "s", SP, "t", "o", SP, "u", "n", "p", "a", "c", "k">>
Handlers == {V_user, V_pass, V_capa, V_stat, V_list, V_uidl, V_top, V_retr, V_dele,
             V_noop, V_quit, V_unknown}

\* ChatterboxConnection.sendall: the characters written to the socket
sendall(text) == text \o end

send_msg(args) == sendall(Join(<<SP>>, [i \in DOMAIN args |-> str(args[i])]))
send_err(args) == send_msg(<<PyStr(S_ERR)>> \o args)
send_ok(args) == send_msg(<<PyStr(S_OK)>> \o args)
send_banner == send_ok(<<PyStr(S_banner)>>)

Return(ml, sent) ==
    [exc |-> "", args |-> <<>>, sent |-> sent, ml |-> ml, closed |-> FALSE,
     connected |-> TRUE]
Raise(exc, args, ml) ==
    [exc |-> exc, args |-> args, sent |-> <<>>, ml |-> ml, closed |-> FALSE,
     connected |-> TRUE]

\* _param1unused and _param1used: the arguments of the ValueError raised, or None
\* a check that lets any parameter pass
_param1unused_lax(param) == None

_param1unused(param) ==
    IF param # None THEN Some(<<PyStr(S_bad_args), PyStr(param[1])>>) ELSE None
_param1used(param) ==
    IF param = None THEN Some(<<PyStr(S_missing_args)>>) ELSE None

\* _param2message: (msg, msgno), with i the Python index msgno-1 of msg
_param2message(ml, param) ==
    LET Lookup(l, msgno) ==
            IF ~InRange(l, msgno - 1)
            THEN [exc |-> "ValueError",
                  args |-> <<PyStr(S_bad_message_number), PyInt(msgno)>>,
                  ml |-> l, i |-> 0, msgno |-> msgno]
            ELSE [exc |-> "", args |-> <<>>, ml |-> l, i |-> msgno - 1, msgno |-> msgno]
        Go(n) ==
            IF ~n.ok
            THEN [exc |-> "ValueError", args |-> <<PyStr(S_bad_number), PyStr(param)>>,
                  ml |-> ml, i |-> 0, msgno |-> 0]
            ELSE Lookup(Loaded(ml), n.val)
    IN  Go(ParseInt(param))

\* "if data:" for a parameter: neither None nor the empty str
Truthy(param) == param # None /\ param[1] # <<>>

\* the sum of msg.size() over the first n messages of the list
RECURSIVE SumSizes(_, _)
SumSizes(ml, n) == IF n = 0 THEN 0 ELSE SumSizes(ml, n - 1) + size(getitem(ml, n - 1))

\* a fallback that sends -ERR without the text
handle_unknown_bare(param, ml) == Return(ml, <<send_err(<<>>)>>)

handle_unknown(param, ml) == Raise("ValueError", <<PyStr(S_unknown_command)>>, ml)

handle_user(param, ml) ==
    IF _param1used(param) # None THEN Raise("ValueError", _param1used(param)[1], ml)
    ELSE Return(ml, <<send_ok(<<PyStr(S_user_accepted)>>)>>)

handle_pass(param, ml) ==
    IF _param1used(param) # None THEN Raise("ValueError", _param1used(param)[1], ml)
    ELSE Return(ml, <<send_ok(<<PyStr(S_pass_accepted)>>)>>)

handle_capa(param, ml) ==
    IF _param1unused(param) # None THEN Raise("ValueError", _param1unused(param)[1], ml)
    ELSE Return(ml, <<send_ok(<<PyStr(Join(end, <<S_capa, S_TOP, S_USER, S_UIDL, S_dot>>))>>)>>)

handle_stat(param, ml) ==
    LET Go(l) == Return(l, <<send_ok(<<PyInt(len(l)), PyInt(SumSizes(l, len(l)))>>)>>)
    IN  IF _param1unused(param) # None THEN Raise("ValueError", _param1unused(param)[1], ml)
        ELSE Go(Loaded(ml))

\* a LIST that numbers the messages from 0
handle_list_from0(param, ml) ==
    LET One(p) ==
            IF p.exc # "" THEN Raise(p.exc, p.args, p.ml)
            ELSE Return(p.ml, <<send_ok(<<PyInt(p.msgno), PyInt(size(getitem(p.ml, p.i)))>>)>>)
        All(l) ==
            Return(l, <<send_ok(<<PyStr(
                StrInt(len(l)) \o <<SP>> \o S_messages \o StrInt(SumSizes(l, len(l)))
                    \o <<SP>> \o S_octets_paren \o end
                \o Cat([n \in 1..len(l) |->
                           StrInt(n - 1) \o <<SP>> \o StrInt(size(getitem(l, n - 1))) \o end])
                \o S_dot)>>)>>)
    IN  IF Truthy(param) THEN One(_param2message(ml, param[1])) ELSE All(Loaded(ml))

handle_list(param, ml) ==
    LET One(p) ==
            IF p.exc # "" THEN Raise(p.exc, p.args, p.ml)
            ELSE Return(p.ml, <<send_ok(<<PyInt(p.msgno), PyInt(size(getitem(p.ml, p.i)))>>)>>)
        All(l) ==
            Return(l, <<send_ok(<<PyStr(
                StrInt(len(l)) \o <<SP>> \o S_messages \o StrInt(SumSizes(l, len(l)))
                    \o <<SP>> \o S_octets_paren \o end
                \o Cat([n \in 1..len(l) |->
                           StrInt(n) \o <<SP>> \o StrInt(size(getitem(l, n - 1))) \o end])
                \o S_dot)>>)>>)
    IN  IF Truthy(param) THEN One(_param2message(ml, param[1])) ELSE All(Loaded(ml))

handle_uidl(param, ml) ==
    LET One(p) ==
            IF p.exc # "" THEN Raise(p.exc, p.args, p.ml)
            ELSE Return(p.ml, <<send_ok(<<PyInt(p.msgno), PyStr(getitem(p.ml, p.i).uid)>>)>>)
        All(l) ==
            Return(l, <<send_ok(<<PyStr(
                S_uidl_follows \o end
                \o Cat([n \in 1..len(l) |->
                           StrInt(n) \o <<SP>> \o getitem(l, n - 1).uid \o end])
                \o S_dot)>>)>>)
    IN  IF Truthy(param) THEN One(_param2message(ml, param[1])) ELSE All(Loaded(ml))

\* "num, lines = param.split()" raises ValueError unless there are two words
handle_top(param, ml) ==
    LET Send(p, t) ==
            IF t.exc # "" THEN Raise(t.exc, t.args, setitem(p.ml, p.i, t.m))
            ELSE Return(setitem(p.ml, p.i, t.m),
                        <<send_ok(<<PyStr(S_top_follows \o end \o t.v \o end \o S_dot)>>)>>)
        Top(p, word, lines) ==
            IF p.exc # "" THEN Raise(p.exc, p.args, p.ml)
            ELSE IF ~lines.ok THEN Raise("ValueError", <<PyStr(S_bad_number), PyStr(word)>>, p.ml)
            ELSE Send(p, top(getitem(p.ml, p.i), lines.val))
        Go(words) ==
            IF Len(words) < 2
            THEN Raise("ValueError",
                       <<PyStr(S_not_enough \o <<SP>> \o S_expected2 \o StrInt(Len(words))
                               \o <<")">>)>>, ml)
            ELSE IF Len(words) > 2 THEN Raise("ValueError", <<PyStr(S_unpack_many)>>, ml)
            ELSE Top(_param2message(ml, words[1]), words[2], ParseInt(words[2]))
    IN  IF _param1used(param) # None THEN Raise("ValueError", _param1used(param)[1], ml)
        ELSE Go(SplitWords(param[1]))

\* a RETR that reports the size of the file, not of the data it sends
handle_retr_st_size(param, ml) ==
    LET Send(p, d) ==
            Return(setitem(p.ml, p.i, d.m),
                   <<send_ok(<<PyStr(StrInt(st_size(d.m.filename)) \o <<SP>> \o S_octets \o end
                                     \o d.v \o end \o S_dot)>>)>>)
        Go(p) ==
            IF p.exc # "" THEN Raise(p.exc, p.args, p.ml)
            ELSE Send(p, data(getitem(p.ml, p.i)))
    IN  IF _param1used(param) # None THEN Raise("ValueError", _param1used(param)[1], ml)
        ELSE Go(_param2message(ml, param[1]))

handle_retr(param, ml) ==
    LET Send(p, d) ==
            Return(setitem(p.ml, p.i, d.m),
                   <<send_ok(<<PyStr(StrInt(Len(d.v)) \o <<SP>> \o S_octets \o end \o d.v
                                     \o end \o S_dot)>>)>>)
        Go(p) ==
            IF p.exc # "" THEN Raise(p.exc, p.args, p.ml)
            ELSE Send(p, data(getitem(p.ml, p.i)))
    IN  IF _param1used(param) # None THEN Raise("ValueError", _param1used(param)[1], ml)
        ELSE Go(_param2message(ml, param[1]))

\* a DELE that takes the message out of the list
handle_dele_removes(param, ml) ==
    LET Drop(l, pos) ==
            [l EXCEPT !._array = Some(UpTo(l._array[1], pos - 1) \o From(l._array[1], pos))]
        Go(p) ==
            IF p.exc # "" THEN Raise(p.exc, p.args, p.ml)
            ELSE Return(Drop(p.ml, Position(p.ml, p.i)),
                        <<send_ok(<<PyStr(S_message), PyInt(p.msgno), PyStr(S_deleted)>>)>>)
    IN  IF _param1used(param) # None THEN Raise("ValueError", _param1used(param)[1], ml)
        ELSE Go(_param2message(ml, param[1]))

handle_dele(param, ml) ==
    LET Go(p) ==
            IF p.exc # "" THEN Raise(p.exc, p.args, p.ml)
            ELSE Return(p.ml, <<send_ok(<<PyStr(S_message), PyInt(p.msgno), PyStr(S_deleted)>>)>>)
    IN  IF _param1used(param) # None THEN Raise("ValueError", _param1used(param)[1], ml)
        ELSE Go(_param2message(ml, param[1]))

handle_noop(param, ml) ==
    IF _param1unused(param) # None THEN Raise("ValueError", _param1unused(param)[1], ml)
    ELSE Return(ml, <<send_ok(<<>>)>>)

\* a QUIT that signs off and closes the socket but stays connected
handle_quit_stays(param, ml) ==
    IF _param1unused(param) # None THEN Raise("ValueError", _param1unused(param)[1], ml)
    ELSE [exc |-> "", args |-> <<>>, sent |-> <<send_ok(<<PyStr(S_signoff)>>)>>, ml |-> ml,
          closed |-> TRUE, connected |-> TRUE]

\* sends the sign-off, then self.conn.close() and self.connected = False
handle_quit(param, ml) ==
    IF _param1unused(param) # None THEN Raise("ValueError", _param1unused(param)[1], ml)
    ELSE [exc |-> "", args |-> <<>>, sent |-> <<send_ok(<<PyStr(S_signoff)>>)>>, ml |-> ml,
          closed |-> TRUE, connected |-> FALSE]

\* a lookup of 'handle_' + command, in the case the client wrote
get_handler_exact(command) ==
    LET Go(name) == IF name \in Handlers THEN name ELSE V_unknown
    IN  Go(command)

\* the method named 'handle_' + command.lower(), handle_unknown when there is none
get_handler(command) ==
    LET Go(name) == IF name \in Handlers THEN name ELSE V_unknown
    IN  Go(Lower(command))

\* handler(param)
Call(handler, param, ml) ==
    CASE handler = V_user -> handle_user(param, ml)
      [] handler = V_pass -> handle_pass(param, ml)
      [] handler = V_capa -> handle_capa(param, ml)
      [] handler = V_stat -> handle_stat(param, ml)
      [] handler = V_list -> handle_list(param, ml)
      [] handler = V_uidl -> handle_uidl(param, ml)
      [] handler = V_top -> handle_top(param, ml)
      [] handler = V_retr -> handle_retr(param, ml)
      [] handler = V_dele -> handle_dele(param, ml)
      [] handler = V_noop -> handle_noop(param, ml)
      [] handler = V_quit -> handle_quit(param, ml)
      [] OTHER -> handle_unknown(param, ml)

\* words.pop(0) raises IndexError when the line has no word; a ValueError of
\* the handler is answered with send_err(err), anything else is not caught
process_line(line, ml) ==
    LET Answer(r) ==
            IF r.exc = "ValueError"
            THEN Return(r.ml, <<send_err(<<PyStr(StrError(r.args))>>)>>)
            ELSE r
        Go(words) ==
            IF words = <<>> THEN Raise("IndexError", <<>>, ml)
            ELSE Answer(Call(get_handler(words[1]),
                             IF Len(words) > 1 THEN Some(words[2]) ELSE None, ml))
    IN  Go(SplitMax1(line))

(***************************************************************************)
(* ChatterboxConnection.recvall, one conn.recv() at a time.  data is the   *)
(* list of chunks kept so far; the result says whether recvall returns     *)
(* (done) and with which line, or goes on to the next recv with data.      *)
(***************************************************************************)
\* a byte that is no UTF-8: chunk.decode('utf-8') raises UnicodeDecodeError
XFF == "xFF"

recv_chunk(data_, chunk) ==
    LET data1 == Append(data_, chunk)
        n == Len(data1)
        pair == data1[n - 1] \o data1[n]
        data2 == [UpTo(data1, n - 1) EXCEPT ![n - 1] = UpTo(pair, Find(pair, end))]
    IN  IF XFF \in Range(chunk)
        THEN [done |-> TRUE, line |-> Cat(data_), data |-> data_]
        ELSE IF In(end, chunk)
        THEN [done |-> TRUE, data |-> Append(data_, UpTo(chunk, Find(chunk, end))),
              line |-> Cat(Append(data_, UpTo(chunk, Find(chunk, end))))]
        ELSE IF n > 1 /\ In(end, pair)
        THEN [done |-> TRUE, data |-> data2, line |-> Cat(data2)]
        ELSE [done |-> FALSE, data |-> data1, line |-> <<>>]

(***************************************************************************)
(* The server and one client at a time.                                    *)
(*   messages     the MessageList serve() was given                        *)
(*   pc           where serve() is: "listen" (at sock.accept), "session"   *)
(*                (in process_connection, at a conn.recv) or "stopped"     *)
(*   connected    POPConnection.connected of the current connection        *)
(*   data         the chunks recvall holds between two recv calls          *)
(*   sock_closed  conn.close() was called on the current connection        *)
(*   out          what the server wrote to the current connection          *)
(*   lines        the lines process_connection passed to process_line      *)
(*   wire         the chunks on their way to the server, in order          *)
(*   peer_closed  the client has closed its end                            *)
(*   stream       every character the client sent on this connection       *)
(*   nsent, nconn the number of chunks sent and of connections accepted    *)
(*   reset        the peer has reset the connection: the next socket call  *)
(*                of the server raises ConnectionResetError                *)
(***************************************************************************)
VARIABLES messages, pc, connected, data_, sock_closed, out, lines, wire, peer_closed,
          stream, nsent, nconn, reset

vars == <<messages, pc, connected, data_, sock_closed, out, lines, wire, peer_closed,
          stream, nsent, nconn, reset>>

MaxSources == 3
MaxSends == 3
MaxConns == 2

\* the command lines of the clients
C_STAT == <<"S", "T", "A", "T">>
C_NOOP == <<"N", "O", "O", "P">>
C_QUIT == <<"Q", "U", "I", "T">>
C_LIST == <<"L", "I", "S", "T">>
C_UIDL == <<"U", "I", "D", "L">>
C_RETR == <<"R", "E", "T", "R">>
C_TOP == <<"T", "O", "P">>
C_DELE == <<"D", "E", "L", "E">>
C_CAPA == <<"C", "A", "P", "A">>
C_USER == <<"U", "S", "E", "R">>
C_PASS == <<"P", "A", "S", "S">>
C_XYZZY == <<"X", "Y", "Z", "Z", "Y">>
C_UNKNOWN == <<"U", "N", "K", "N", "O", "W", "N">>

Line(verb, words) == Join(<<SP>>, <<verb>> \o words)

\* the source lists given on the command line: the files of AllFiles, in order
RECURSIVE Chosen(_, _)
Chosen(S, i) ==
    IF i > Len(AllFiles) THEN <<>>
    ELSE IF i \in S THEN <<AllFiles[i]>> \o Chosen(S, i + 1)
    ELSE Chosen(S, i + 1)
Sources == {Chosen(S, 1) : S \in {T \in SUBSET DOMAIN AllFiles : Cardinality(T) <= MaxSources}}

\* the source lists of the sessions: the longest ones
SessionSources == {src \in Sources : \A other \in Sources : Len(other) <= Len(src)}

\* the chunks a client's writes reach the server in
Chunks ==
    {C_STAT \o end, C_NOOP \o end, C_QUIT \o end,
     Line(C_RETR, <<<<"1">>>>) \o end, Line(C_RETR, <<<<"9", "9">>>>) \o end,
     Line(C_LIST, <<<<"1">>>>) \o end, Line(C_DELE, <<<<"1">>>>) \o end, end,
     C_NOOP \o end \o C_QUIT \o end,
     <<"N", "O">>, <<"O", "P", CR>>, <<LF>> \o C_STAT \o end, <<LF>>}

\* process_connection from the line recvall returned to the next recv: an
\* empty line is skipped, the loop ends when connected is false (and serve
\* closes the socket), an exception ends serve()
Deliver(line, r) ==
    /\ lines' = Append(lines, line)
    /\ messages' = r.ml
    /\ out' = out \o r.sent
    /\ connected' = r.connected
    /\ sock_closed' = (r.closed \/ r.exc # "" \/ ~r.connected)
    /\ pc' = IF r.exc # "" THEN "stopped"
             ELSE IF r.connected THEN "session" ELSE "listen"

Dispatch(line) ==
    /\ data_' = <<>>
    /\ IF line = <<>>
       THEN UNCHANGED <<messages, pc, connected, sock_closed, out, lines>>
       ELSE Deliver(line, process_line(line, messages))

\* an accept that does not wait for the session loop to exit
Accept_early ==
    /\ pc \in {"listen", "session"}
    /\ nconn < MaxConns
    /\ nconn' = nconn + 1
    /\ pc' = "session"
    /\ connected' = TRUE
    /\ out' = <<send_banner>>
    /\ lines' = <<>>
    /\ data_' = <<>>
    /\ sock_closed' = FALSE
    /\ wire' = <<>>
    /\ peer_closed' = FALSE
    /\ stream' = <<>>
    /\ reset' = FALSE
    /\ UNCHANGED <<messages, nsent>>

\* serve: sock.accept(), POPConnection(conn, messages), send_banner
Accept ==
    /\ pc = "listen"
    /\ nconn < MaxConns
    /\ nconn' = nconn + 1
    /\ pc' = "session"
    /\ connected' = TRUE
    /\ out' = <<send_banner>>
    /\ lines' = <<>>
    /\ data_' = <<>>
    /\ sock_closed' = FALSE
    /\ wire' = <<>>
    /\ peer_closed' = FALSE
    /\ stream' = <<>>
    /\ reset' = FALSE
    /\ UNCHANGED <<messages, nsent>>

\* conn.recv(4096) returns the next chunk
Received(r) ==
    IF r.done THEN Dispatch(r.line)
    ELSE /\ data_' = r.data
         /\ UNCHANGED <<messages, pc, connected, sock_closed, out, lines>>

Recv ==
    /\ pc = "session"
    /\ wire # <<>>
    /\ wire' = Tail(wire)
    /\ Received(recv_chunk(data_, Head(wire)))
    /\ UNCHANGED <<peer_closed, stream, nsent, nconn, reset>>

\* a zero-length read that ends the connection whatever recvall holds
RecvEOF_drops ==
    /\ pc = "session"
    /\ wire = <<>>
    /\ peer_closed
    /\ ~reset
    /\ connected' = FALSE
    /\ sock_closed' = TRUE
    /\ pc' = "listen"
    /\ data_' = <<>>
    /\ UNCHANGED <<messages, out, lines>>
    /\ UNCHANGED <<wire, peer_closed, stream, nsent, nconn, reset>>

\* conn.recv(4096) returns b'': the client has closed and nothing is left
RecvEOF ==
    /\ pc = "session"
    /\ wire = <<>>
    /\ peer_closed
    /\ ~reset
    /\ IF data_ # <<>> THEN Dispatch(Cat(data_))
       ELSE /\ connected' = FALSE
            /\ sock_closed' = TRUE
            /\ pc' = "listen"
            /\ UNCHANGED <<messages, data_, out, lines>>
    /\ UNCHANGED <<wire, peer_closed, stream, nsent, nconn, reset>>

ClientSend(chunk) ==
    /\ pc = "session"
    /\ ~peer_closed
    /\ nsent < MaxSends
    /\ nsent' = nsent + 1
    /\ wire' = Append(wire, chunk)
    /\ stream' = stream \o chunk
    /\ UNCHANGED <<messages, pc, connected, data_, sock_closed, out, lines, peer_closed,
                   nconn, reset>>

ClientClose ==
    /\ pc = "session"
    /\ ~peer_closed
    /\ peer_closed' = TRUE
    /\ UNCHANGED <<messages, pc, connected, data_, sock_closed, out, lines, wire, stream,
                   nsent, nconn, reset>>

\* the client resets the connection; what it sent and was not read is lost
ClientReset ==
    /\ pc = "session"
    /\ ~peer_closed
    /\ reset' = TRUE
    /\ peer_closed' = TRUE
    /\ wire' = <<>>
    /\ UNCHANGED <<messages, pc, connected, data_, sock_closed, out, lines, stream, nsent,
                   nconn>>

\* conn.recv(4096) raises ConnectionResetError: nothing in recvall,
\* process_connection or the inner try of serve catches it, the finally
\* closes conn, and the except Exception outside the while loop ends serve
RecvError ==
    /\ pc = "session"
    /\ reset
    /\ pc' = "stopped"
    /\ sock_closed' = TRUE
    /\ UNCHANGED <<messages, connected, data_, out, lines, wire, peer_closed, stream, nsent,
                   nconn, reset>>

\* the reset arrives after recvall returned a line: the conn.sendall of the
\* response raises an OSError, which process_line does not catch either
SendError ==
    LET Fail(line, r) ==
            /\ r.exc \in {"", "ValueError"}
            /\ lines' = Append(lines, line)
            /\ messages' = r.ml
        Lost(c) == c.done /\ c.line # <<>> /\ Fail(c.line, process_line(c.line, messages))
    IN  /\ pc = "session"
        /\ wire # <<>>
        /\ ~peer_closed
        /\ Lost(recv_chunk(data_, Head(wire)))
        /\ wire' = <<>>
        /\ data_' = <<>>
        /\ reset' = TRUE
        /\ peer_closed' = TRUE
        /\ pc' = "stopped"
        /\ sock_closed' = TRUE
        /\ UNCHANGED <<connected, out, stream, nsent, nconn>>

Init ==
    /\ messages \in {MessageList(src) : src \in SessionSources}
    /\ pc = "listen"
    /\ connected = FALSE
    /\ data_ = <<>>
    /\ sock_closed = FALSE
    /\ out = <<>>
    /\ lines = <<>>
    /\ wire = <<>>
    /\ peer_closed = FALSE
    /\ stream = <<>>
    /\ nsent = 0
    /\ nconn = 0
    /\ reset = FALSE

Next ==
    \/ Accept
    \/ Recv
    \/ RecvEOF
    \/ \E chunk \in Chunks : ClientSend(chunk)
    \/ ClientClose
    \/ ClientReset
    \/ RecvError
    \/ SendError

Spec == Init /\ [][Next]_vars

(***************************************************************************)
(* One command line against every message list.  The list is in any state  *)
(* earlier connections can have left it in: not yet refreshed, or each     *)
(* message with nothing read, with its data read (RETR, TOP) or with its   *)
(* body lines split as well (TOP with lines).  The client sends one line   *)
(* of AllLines, in one chunk.                                              *)
(***************************************************************************)
Caches(filename) ==
    {Message(filename), data(Message(filename)).m, top(Message(filename), 1).m}

RECURSIVE Arrays(_)
Arrays(ms) ==
    IF ms = <<>> THEN {<<>>}
    ELSE {<<m>> \o rest : m \in Caches(Head(ms).filename), rest \in Arrays(Tail(ms))}

MessageLists(src) ==
    {MessageList(src)}
        \cup {[_source |-> src, _array |-> Some(a)] : a \in Arrays(Existing(src))}

\* message numbers and line counts as a client may write them
Numbers == {<<"0">>, <<"1">>, <<"2">>, <<"3">>, <<"4">>, <<"9", "9">>, <<"-", "1">>,
            <<"-", "4">>, <<"x">>, <<"1", "x">>}
Counts == {<<"0">>, <<"1">>, <<"2">>, <<"4">>, <<"9">>, <<"x">>}

IndexLines ==
    {Line(verb, <<n>>) : verb \in {C_LIST, C_UIDL, C_RETR, C_DELE}, n \in Numbers}
        \cup {Line(C_TOP, <<n, k>>) : n \in Numbers, k \in Counts}

OtherLines ==
    {C_USER, C_PASS, C_CAPA, C_STAT, C_LIST, C_UIDL, C_TOP, C_RETR, C_DELE, C_NOOP, C_QUIT,
     C_XYZZY, C_UNKNOWN}
        \cup {Line(verb, <<<<"x">>>>) : verb \in {C_USER, C_PASS, C_CAPA, C_STAT, C_NOOP,
                                                C_QUIT, C_XYZZY, C_UNKNOWN}}
        \cup {Lower(C_STAT), Lower(C_LIST), Line(Lower(C_RETR), <<<<"1">>>>),
              Line(<<"T", "o", "p">>, <<<<"1">>, <<"0">>>>),
              Line(C_TOP, <<<<"1">>>>), Line(C_TOP, <<<<"1">>, <<"2">>, <<"3">>>>),
              Line(C_RETR, <<<<SP, "1", SP>>>>), Line(C_USER, <<<<"a">>, <<"b">>>>),
              <<SP, SP>>}

AllLines == IndexLines \cup OtherLines

SendLine(line) ==
    /\ pc = "session"
    /\ ~peer_closed
    /\ nsent = 0
    /\ nsent' = 1
    /\ wire' = Append(wire, line \o end)
    /\ stream' = stream \o line \o end
    /\ UNCHANGED <<messages, pc, connected, data_, sock_closed, out, lines, peer_closed,
                   nconn, reset>>

InitLine ==
    /\ messages \in UNION {MessageLists(src) : src \in Sources}
    /\ pc = "listen"
    /\ connected = FALSE
    /\ data_ = <<>>
    /\ sock_closed = FALSE
    /\ out = <<>>
    /\ lines = <<>>
    /\ wire = <<>>
    /\ peer_closed = FALSE
    /\ stream = <<>>
    /\ nsent = 0
    /\ nconn = 0
    /\ reset = FALSE

NextLine ==
    \/ Accept
    \/ Recv
    \/ RecvEOF
    \/ \E line \in AllLines : SendLine(line)
    \/ ClientClose

SpecLine == InitLine /\ [][NextLine]_vars

(***************************************************************************)
(* What a client reads: the response to the k-th line dispatched on the    *)
(* connection follows the banner and the responses to the lines before it. *)
(***************************************************************************)
Answered(k) == k \in DOMAIN lines /\ k + 1 \in DOMAIN out
Response(k) == out[k + 1]
StartsWith(s, prefix) == Len(s) >= Len(prefix) /\ UpTo(s, Len(prefix)) = prefix

\* the files of the message list, in order, and the n-th of them
Mailbox == Existing(messages._source)
Count == Len(Mailbox)
Nth(n) == Mailbox[ParseInt(n).val].filename

\* n names a message: a number with 1 <= n <= count
ValidNumber(n) == ParseInt(n).ok /\ 1 <= ParseInt(n).val /\ ParseInt(n).val <= Count

\* the sizes a message can be listed with: of the file, or of its text once read
SizesOf(n) == {st_size(Mailbox[n].filename), Len(read(Mailbox[n].filename))}

\* the size columns of a listing of the first n messages, and their total
RECURSIVE Listings(_)
Listings(n) ==
    IF n = 0 THEN {<<>>} ELSE {Append(l, sz) : l \in Listings(n - 1), sz \in SizesOf(n)}

RECURSIVE Sum(_)
Sum(l) == IF l = <<>> THEN 0 ELSE Head(l) + Sum(Tail(l))

\* the verb of a line, as process_line reads it
VerbOf(line) == IF SplitMax1(line) = <<>> THEN <<>> ELSE Lower(SplitMax1(line)[1])

\* the line just dispatched by this step, if any
Dispatched(line) == lines' = Append(lines, line)

\* the commands that take a message number n
NumberedLines(n) ==
    {Line(verb, <<n>>) : verb \in {C_LIST, C_UIDL, C_RETR, C_DELE}}
        \cup {Line(C_TOP, <<n, k>>) : k \in Counts}

(***************************************************************************)
(* C1: LIST, UIDL, RETR, TOP and DELE with a message number that is not a  *)
(* valid 1-based index (n <= 0, n > count, not a number) are answered with *)
(* -ERR, and the connection stays open.                                    *)
(***************************************************************************)
C1_BadNumberIsError ==
    [][\A n \in Numbers : \A line \in NumberedLines(n) :
          (Dispatched(line) /\ ~ValidNumber(n))
              => /\ Len(out') = Len(out) + 1
                 /\ StartsWith(out'[Len(out')], S_ERR)
                 /\ connected' /\ ~sock_closed' /\ pc' = "session"]_vars

(***************************************************************************)
(* C2: with 1 <= n <= count, LIST n, UIDL n, RETR n, TOP n k and DELE n    *)
(* are answered with +OK and the size, the identifier or the content of    *)
(* the n-th message.                                                       *)
(***************************************************************************)
C2_ValidNumberSucceeds ==
    \A k \in DOMAIN lines : \A n \in {m \in Numbers : ValidNumber(m)} :
        /\ lines[k] = Line(C_LIST, <<n>>)
             => /\ Answered(k)
                /\ \E sz \in {st_size(Nth(n)), Len(read(Nth(n)))} :
                      Response(k) = S_OK \o <<SP>> \o n \o <<SP>> \o StrInt(sz) \o end
        /\ lines[k] = Line(C_UIDL, <<n>>)
             => /\ Answered(k)
                /\ Response(k) = S_OK \o <<SP>> \o n \o <<SP>> \o basename(Nth(n)) \o end
        /\ lines[k] = Line(C_RETR, <<n>>)
             => /\ Answered(k)
                /\ StartsWith(Response(k), S_OK \o <<SP>>)
                /\ In(end \o read(Nth(n)) \o end, Response(k))
        /\ lines[k] = Line(C_DELE, <<n>>)
             => /\ Answered(k)
                /\ StartsWith(Response(k), S_OK \o <<SP>> \o S_message \o <<SP>> \o n \o <<SP>>)
        /\ \A c \in {<<"0">>, <<"1">>, <<"2">>, <<"4">>, <<"9">>} :
             lines[k] = Line(C_TOP, <<n, c>>)
                => /\ Answered(k)
                   /\ StartsWith(Response(k), S_OK \o <<SP>> \o S_top_follows \o end)

(***************************************************************************)
(* C3: a message number m beyond the count is answered with exactly        *)
(* "-ERR bad message number m", and a NOOP after it is still answered +OK. *)
(***************************************************************************)
C3_BadMessageNumberLine ==
    \A k \in DOMAIN lines :
        lines[k] = Line(C_RETR, <<<<"9", "9">>>>)
            => /\ Answered(k)
               /\ Response(k) = S_ERR \o <<SP>> \o S_bad_message_number \o <<SP, "9", "9">> \o end
               /\ (Answered(k + 1) /\ lines[k + 1] = C_NOOP) => Response(k + 1) = S_OK \o end

(***************************************************************************)
(* C4: STAT reports the count and the sum of the sizes, and two STAT on    *)
(* one connection get the same response whatever was processed between.    *)
(***************************************************************************)
C4_StatIdempotent ==
    \A i, j \in DOMAIN lines :
        (lines[i] = C_STAT /\ lines[j] = C_STAT /\ Answered(i) /\ Answered(j))
            => /\ Response(i) = Response(j)
               /\ \E l \in Listings(Count) :
                     Response(i) = S_OK \o <<SP>> \o StrInt(Count) \o <<SP>> \o StrInt(Sum(l)) \o end

(***************************************************************************)
(* C5: in every successful RETR response the octet count on the +OK line   *)
(* is the length of the content carried between that line and the final    *)
(* "." line of the same response.                                          *)
(***************************************************************************)
RetrCount(r) == Split(UpTo(r, Find(r, end)), <<SP>>)
RetrContent(r) == SubSeq(r, Find(r, end) + 3, Len(r) - 5)

C5_RetrOctetsMatchContent ==
    \A k \in DOMAIN lines :
        (Answered(k) /\ VerbOf(lines[k]) = Lower(C_RETR) /\ StartsWith(Response(k), S_OK))
            => /\ Len(RetrCount(Response(k))) = 3
               /\ RetrCount(Response(k))[3] = S_octets
               /\ From(Response(k), Len(Response(k)) - 5) = end \o S_dot \o end
               /\ ParseInt(RetrCount(Response(k))[2]) =
                      [ok |-> TRUE, val |-> Len(RetrContent(Response(k)))]

\* RETR 1 answered with the six characters the CRLF file reads as
C5_RetrOfCrlfFile ==
    /\ lines = <<Line(C_RETR, <<<<"1">>>>)>>
    /\ Answered(1)
    /\ Count >= 1 /\ Nth(<<"1">>) = F_crlf
    /\ RetrContent(Response(1)) = read(F_crlf)
    /\ st_size(F_crlf) # Len(read(F_crlf))

(***************************************************************************)
(* C6: LIST without a parameter answers a header line with the count and   *)
(* the total octets, one line "i size" per message for i = 1..count in     *)
(* list order, the total being the sum of the listed sizes, and a final    *)
(* line "."; LIST n with a valid n answers the one line "+OK n size".      *)
(***************************************************************************)
ListRows(l) == Cat([i \in 1..Len(l) |-> StrInt(i) \o <<SP>> \o StrInt(l[i]) \o end])

ListResponse(l) ==
    S_OK \o <<SP>> \o StrInt(Len(l)) \o <<SP>> \o S_messages \o StrInt(Sum(l)) \o <<SP>>
        \o S_octets_paren \o end \o ListRows(l) \o S_dot \o end

C6_ListFormat ==
    \A k \in DOMAIN lines :
        /\ (Answered(k) /\ lines[k] \in {C_LIST, Lower(C_LIST)})
             => \E l \in Listings(Count) : Response(k) = ListResponse(l)
        /\ \A n \in {m \in Numbers : ValidNumber(m)} :
             (Answered(k) /\ lines[k] = Line(C_LIST, <<n>>))
                => \E sz \in SizesOf(ParseInt(n).val) :
                      Response(k) = S_OK \o <<SP>> \o n \o <<SP>> \o StrInt(sz) \o end

\* LIST answered for a list of three messages, one of them already read
C6_ListOfThree ==
    /\ lines = <<C_LIST>>
    /\ Answered(1)
    /\ Count = 3
    /\ Len(Split(Response(1), end)) = 6
    /\ \E i \in 1..3 : Loaded(messages)._array[1][i]._data # None

(***************************************************************************)
(* C7: for a message with a header, TOP n 0 answers the header and one     *)
(* blank line and no body line; TOP n k with k at least the number of body *)
(* lines answers the header and every body line, in order.                 *)
(***************************************************************************)
HasHeader(f) == In(<<LF, LF>>, read(f))
HeaderOf(f) == UpTo(read(f), Find(read(f), <<LF, LF>>))
BodyLinesOf(f) == Split(From(read(f), Find(read(f), <<LF, LF>>) + 2), <<LF>>)

TopResponse(f, bodylines) ==
    S_OK \o <<SP>> \o S_top_follows \o end \o HeaderOf(f) \o end \o end
        \o Join(end, bodylines) \o end \o S_dot \o end

C7_TopZeroAndTopAll ==
    \A k \in DOMAIN lines : \A n \in {m \in Numbers : ValidNumber(m)} :
        \A c \in {d \in Counts : ParseInt(d).ok} : \A verb \in {C_TOP, <<"T", "o", "p">>} :
            (Answered(k) /\ lines[k] = Line(verb, <<n, c>>) /\ HasHeader(Nth(n)))
                => /\ ParseInt(c).val = 0 => Response(k) = TopResponse(Nth(n), <<>>)
                   /\ ParseInt(c).val >= Len(BodyLinesOf(Nth(n)))
                         => Response(k) = TopResponse(Nth(n), BodyLinesOf(Nth(n)))

\* TOP 1 4 answered with the four body lines of the LF file
C7_TopOfWholeBody ==
    /\ lines = <<Line(C_TOP, <<<<"1">>, <<"4">>>>)>>
    /\ Answered(1)
    /\ Count >= 1 /\ Nth(<<"1">>) = F_lf
    /\ Len(BodyLinesOf(F_lf)) = 4
    /\ Response(1) = TopResponse(F_lf, BodyLinesOf(F_lf))

(***************************************************************************)
(* C8: when the chunks kept so far end with \r and the next read begins    *)
(* with \n, recvall returns exactly the characters kept before that \r:    *)
(* the line handed to process_line is those characters, none added and     *)
(* none dropped.                                                           *)
(***************************************************************************)
Front(s) == SubSeq(s, 1, Len(s) - 1)
Last(s) == s[Len(s)]

SplitDelimiter ==
    /\ pc = "session"
    /\ wire # <<>> /\ wire' = Tail(wire)
    /\ data_ # <<>> /\ ~In(end, Cat(data_))
    /\ Last(Cat(data_)) = CR
    /\ Head(Head(wire)) = LF

C8_SplitDelimiterReassembled ==
    [][SplitDelimiter
          => lines' = IF Front(Cat(data_)) = <<>> THEN lines
                      ELSE Append(lines, Front(Cat(data_)))]_vars

(***************************************************************************)
(* C9: no line returned by recvall contains the delimiter \r\n.            *)
(***************************************************************************)
C9_NoDelimiterInLine == \A k \in DOMAIN lines : ~In(end, lines[k])

(***************************************************************************)
(* C10: every delimiter-terminated line the client sent is dispatched      *)
(* exactly once, in arrival order: once the server has consumed all that   *)
(* was sent, the lines dispatched are the non-empty lines of the stream.   *)
(***************************************************************************)
NonEmpty(line) == line # <<>>
LinesSent == SelectSeq(Front(Split(stream, end)), NonEmpty)

C10_EveryLineDispatched ==
    (pc = "session" /\ wire = <<>> /\ data_ = <<>>) => lines = LinesSent

(***************************************************************************)
(* C11: a transport failure on a connection (a socket read or write that   *)
(* raises, a peer reset) ends that connection only: the listening socket   *)
(* stays open and the server goes on to accept the next connection.        *)
(***************************************************************************)
C11_TransportFailureKeepsServing == reset => pc \in {"session", "listen"}

(***************************************************************************)
(* C12: process_line answers every line it is given with exactly one       *)
(* response, +OK or -ERR, and returns normally: no exception reaches       *)
(* process_connection or serve.                                            *)
(***************************************************************************)
C12_DispatchNeverRaises ==
    (nconn > 0 /\ ~reset)
        => /\ pc # "stopped"
           /\ Len(out) = Len(lines) + 1
           /\ \A k \in DOMAIN lines :
                 StartsWith(Response(k), S_OK) \/ StartsWith(Response(k), S_ERR)

(***************************************************************************)
(* C13: every command that is answered leaves the session connected,       *)
(* except a QUIT without parameter: its answer is the sign-off line, the   *)
(* socket is closed and connected is false, and from then on no line is    *)
(* read or dispatched and nothing is sent on that connection.              *)
(***************************************************************************)
QuitLine(line) == VerbOf(line) = Lower(C_QUIT) /\ Len(SplitMax1(line)) = 1

C13_SessionStates ==
    [][/\ (Len(lines') = Len(lines) + 1 /\ Len(out') = Len(out) + 1)
            => IF QuitLine(Last(lines'))
               THEN /\ Last(out') = S_OK \o <<SP>> \o S_signoff \o end
                    /\ ~connected' /\ sock_closed' /\ pc' = "listen"
               ELSE connected' /\ ~sock_closed' /\ pc' = "session"
       /\ (~connected /\ nconn' = nconn)
            => lines' = lines /\ out' = out /\ wire' = wire /\ ~connected']_vars

\* a QUIT after another command: signed off, closed, input left unread
C13_QuitAfterCommand ==
    /\ Len(lines) = 2 /\ lines[1] = C_STAT /\ lines[2] = C_QUIT
    /\ Len(out) = 3 /\ Last(out) = S_OK \o <<SP>> \o S_signoff \o end
    /\ ~connected /\ sock_closed /\ pc = "listen"
    /\ wire # <<>>

(***************************************************************************)
(* C14: a line whose verb is none of USER, PASS, CAPA, STAT, LIST, UIDL,   *)
(* TOP, RETR, DELE, NOOP, QUIT is answered with exactly                    *)
(* "-ERR unknown command", whatever its parameter, and the session goes on.*)
(***************************************************************************)
Supported ==
    {Lower(verb) : verb \in {C_USER, C_PASS, C_CAPA, C_STAT, C_LIST, C_UIDL, C_TOP, C_RETR,
                             C_DELE, C_NOOP, C_QUIT}}
UnknownVerb(line) == VerbOf(line) # <<>> /\ VerbOf(line) \notin Supported

C14_UnknownCommand ==
    [][(Len(lines') = Len(lines) + 1 /\ UnknownVerb(Last(lines')) /\ ~reset')
          => /\ out' = Append(out, S_ERR \o <<SP>> \o S_unknown_command \o end)
             /\ connected' /\ ~sock_closed' /\ pc' = "session"
             /\ messages' = messages]_vars

\* an unknown verb with a parameter, answered
C14_UnknownWithParameter ==
    /\ lines = <<Line(C_XYZZY, <<<<"x">>>>)>>
    /\ Len(out) = 2 /\ out[2] = S_ERR \o <<SP>> \o S_unknown_command \o end
    /\ connected /\ pc = "session"

(***************************************************************************)
(* C15: no command changes the message list: the count, the order and the  *)
(* identifier at each index stay what they were, so after DELE n message n *)
(* is still counted by STAT, listed by LIST and returned by RETR n.        *)
(***************************************************************************)
Uids(ml) ==
    LET Of(array) == [i \in DOMAIN array |-> array[i].uid]
    IN  Of(Loaded(ml)._array[1])
UidsOfFiles ==
    LET Of(mailbox) == [i \in DOMAIN mailbox |-> basename(mailbox[i].filename)]
    IN  Of(Mailbox)
L_DELE1 == Line(C_DELE, <<<<"1">>>>)
L_RETR1 == Line(C_RETR, <<<<"1">>>>)
L_LIST1 == Line(C_LIST, <<<<"1">>>>)

StillThereAfterDele ==
    \A k, j \in DOMAIN lines :
        (k < j /\ Answered(j) /\ lines[k] = L_DELE1 /\ StartsWith(Response(k), S_OK))
            => /\ lines[j] = C_STAT
                    => StartsWith(Response(j), S_OK \o <<SP>> \o StrInt(Count) \o <<SP>>)
               /\ lines[j] = L_LIST1
                    => StartsWith(Response(j), S_OK \o <<SP, "1", SP>>)
               /\ lines[j] = L_RETR1
                    => /\ StartsWith(Response(j), S_OK \o <<SP>>)
                       /\ RetrContent(Response(j)) = read(Nth(<<"1">>))

C15_ListUnchanged ==
    /\ [][messages'._source = messages._source]_vars
    /\ [](/\ Uids(messages) = UidsOfFiles
          /\ StillThereAfterDele)

\* DELE 1, then STAT and RETR 1, all answered +OK
C15_DeleThenRetr ==
    /\ lines = <<L_DELE1, C_STAT, L_RETR1>>
    /\ Len(out) = 4
    /\ \A k \in 1..3 : StartsWith(Response(k), S_OK)

(***************************************************************************)
(* C16: USER, PASS, TOP, RETR and DELE without a parameter, and CAPA,      *)
(* STAT, NOOP and QUIT with one, are answered with -ERR; a QUIT with a     *)
(* parameter sends no sign-off and leaves the connection open.             *)
(***************************************************************************)
NeedParameter == {Lower(verb) : verb \in {C_USER, C_PASS, C_TOP, C_RETR, C_DELE}}
TakeNoParameter == {Lower(verb) : verb \in {C_CAPA, C_STAT, C_NOOP, C_QUIT}}
HasParameter(line) == Len(SplitMax1(line)) = 2
WrongArity(line) ==
    \/ VerbOf(line) \in NeedParameter /\ ~HasParameter(line)
    \/ VerbOf(line) \in TakeNoParameter /\ HasParameter(line)

C16_Arity ==
    [][(Len(lines') = Len(lines) + 1 /\ WrongArity(Last(lines')) /\ ~reset')
          => /\ Len(out') = Len(out) + 1
             /\ StartsWith(Last(out'), S_ERR)
             /\ ~In(S_signoff, Last(out'))
             /\ connected' /\ ~sock_closed' /\ pc' = "session"]_vars

\* QUIT with a parameter: an error, and still connected
C16_QuitWithParameter ==
    /\ lines = <<Line(C_QUIT, <<<<"x">>>>)>>
    /\ Len(out) = 2 /\ StartsWith(out[2], S_ERR)
    /\ connected /\ ~sock_closed /\ pc = "session"

(***************************************************************************)
(* C17: a line is split into verb and parameter at the first run of        *)
(* whitespace, the parameter being the whole remainder, and the verb is    *)
(* matched whatever its letter case: a line and the same line with the     *)
(* case of the verb's letters changed get the same response and have the   *)
(* same effect.                                                            *)
(***************************************************************************)
SwapChar(c) ==
    IF \E i \in DOMAIN UpperCase : UpperCase[i] = c
    THEN LowerCase[CHOOSE i \in DOMAIN UpperCase : UpperCase[i] = c]
    ELSE IF \E i \in DOMAIN LowerCase : LowerCase[i] = c
    THEN UpperCase[CHOOSE i \in DOMAIN LowerCase : LowerCase[i] = c]
    ELSE c

\* the line with the case of every letter of its first word changed
SwapVerb(line) ==
    [i \in DOMAIN line |->
        IF /\ i > Len(line) - Len(LStrip(line))
           /\ i <= Len(line) - Len(LStrip(line)) + WordLen(LStrip(line))
        THEN SwapChar(line[i]) ELSE line[i]]

SameAs(other) ==
    /\ out' = out \o process_line(other, messages).sent
    /\ messages' = process_line(other, messages).ml
    /\ connected' = process_line(other, messages).connected

C17_VerbCaseAndSplit ==
    [][(Len(lines') = Len(lines) + 1 /\ ~reset' /\ VerbOf(Last(lines')) # <<>>)
          => /\ SwapVerb(Last(lines')) # Last(lines')
             /\ SameAs(SwapVerb(Last(lines')))
             /\ Last(lines') = Line(C_RETR, <<<<SP, "1", SP>>>>) => SameAs(L_RETR1)
             /\ Last(lines') = Line(C_TOP, <<<<"1">>, <<"2">>, <<"3">>>>)
                   => Last(out') = S_ERR \o <<SP>> \o S_unpack_many \o end
             /\ Last(lines') = Line(C_USER, <<<<"a">>, <<"b">>>>)
                   => Last(out') = S_OK \o <<SP>> \o S_user_accepted \o end]_vars

\* a TOP written "Top", answered as TOP
C17_MixedCaseTop ==
    /\ lines = <<Line(<<"T", "o", "p">>, <<<<"1">>, <<"0">>>>)>>
    /\ Len(out) = 2
    /\ StartsWith(out[2], S_OK \o <<SP>> \o S_top_follows)

(***************************************************************************)
(* C18: on a zero-length read recvall returns the partial line it holds,   *)
(* if any, as the final line; with nothing held it returns the             *)
(* connection-closed signal, on which the session loop ends with connected *)
(* false and nothing more sent.  An empty line is something else: it gets  *)
(* no response and the loop goes on reading.                               *)
(***************************************************************************)
ZeroLengthRead == pc = "session" /\ wire = <<>> /\ peer_closed /\ ~reset /\ vars' # vars

EmptyLineRead ==
    /\ pc = "session" /\ ~reset'
    /\ wire # <<>> /\ wire' = Tail(wire)
    /\ StartsWith(Cat(data_) \o Head(wire), end)

C18_ZeroLengthRead ==
    [][/\ (ZeroLengthRead /\ data_ # <<>>)
            => lines' = Append(lines, Cat(data_)) /\ data_' = <<>>
       /\ (ZeroLengthRead /\ data_ = <<>>)
            => /\ ~connected' /\ sock_closed' /\ pc' = "listen"
               /\ out' = out /\ lines' = lines
       /\ EmptyLineRead
            => /\ connected' /\ ~sock_closed' /\ pc' = "session"
               /\ out' = out /\ lines' = lines /\ data_' = <<>>]_vars

\* the client wrote "NO" and closed: the partial line was dispatched, then
\* the next zero-length read ended the session
C18_PartialLineThenClosed ==
    /\ stream = <<"N", "O">>
    /\ lines = <<<<"N", "O">>>>
    /\ Len(out) = 2
    /\ peer_closed /\ ~connected /\ pc = "listen"

(***************************************************************************)
(* C19: one connection is serviced at a time: accept is called again only  *)
(* after the session loop of the previous connection has exited and its    *)
(* socket is closed; on every connection the banner is the first thing     *)
(* sent, before any line is read.                                          *)
(***************************************************************************)
Banner == S_OK \o <<SP>> \o S_banner \o end

C19_OneConnectionAtATime ==
    /\ [][nconn' = nconn + 1
             => /\ pc # "session" /\ ~connected
                /\ nconn > 0 => sock_closed
                /\ out' = <<Banner>> /\ lines' = <<>> /\ data_' = <<>>
                /\ wire' = <<>> /\ stream' = <<>>]_vars
    /\ [](nconn > 0 => (out # <<>> /\ out[1] = Banner /\ Len(out) <= Len(lines) + 1))

\* the second connection, accepted after the first one was served and closed
C19_SecondConnection ==
    /\ nconn = 2 /\ nsent > 0
    /\ out = <<Banner>> /\ lines = <<>>
    /\ connected /\ ~sock_closed /\ pc = "session"

(***************************************************************************)
(* C20: within a session the size reported for a message is always the     *)
(* same: the size of LIST n, the size on line n of a LIST without          *)
(* parameter and the octet count of RETR n are equal, in whatever order    *)
(* the commands are issued.                                                *)
(***************************************************************************)
\* the size reported for message 1 by the response to lines[k]
ReportedSize(k) ==
    IF lines[k] = L_LIST1 THEN RetrCount(Response(k))[3]
    ELSE IF lines[k] = L_RETR1 THEN RetrCount(Response(k))[2]
    ELSE Split(Split(Response(k), end)[2], <<SP>>)[2]

ReportsSize(k) ==
    /\ Answered(k)
    /\ lines[k] \in {L_LIST1, L_RETR1, C_LIST}
    /\ StartsWith(Response(k), S_OK)
    /\ Count >= 1

C20_SizeConsistent ==
    \A i, j \in DOMAIN lines :
        (ReportsSize(i) /\ ReportsSize(j)) => ReportedSize(i) = ReportedSize(j)

====
